---- MODULE Spec2Model ----
(***************************************************************************)
(* Model of EllipsoidMeshBuilder (bevy_render, mesh/primitives/dim3/       *)
(* ellipsoid.rs): construction with new(a, b, c) and the UV tessellation   *)
(* uv(sectors, stacks), stepped loop by loop.                              *)
(*                                                                         *)
(* f32 values are modelled by exact extended rationals <<n, d>> in lowest  *)
(* terms: d > 0 is the finite value n/d, <<1, 0>> and <<-1, 0>> are the    *)
(* infinities and <<0, 0>> is NaN, with the IEEE rules for 1/0, 0/0,       *)
(* 0*inf and inf-inf.  Rounding and the sign of zero are not modelled.     *)
(* Angles are kept in units of PI.  cos and sin of an angle are kept as    *)
(* symbolic factors, so a coordinate is a rational coefficient times a     *)
(* product of trigonometric factors.                                       *)
(***************************************************************************)
EXTENDS Integers, Sequences, FiniteSets, TLC

VARIABLES
    a, b, c,            \* self.ellipsoid.{a, b, c}
    sectors, stacks,    \* the arguments of uv
    pc,                 \* position in uv
    i, j,               \* loop counters
    x, y, z,            \* the outer vertex loop's x, y, z
    k1, k2,             \* the index loop's k1, k2
    vertices, normals, uvs, indices,   \* the four Vecs
    result              \* what uv returned

vars == <<a, b, c, sectors, stacks, pc, i, j, x, y, z, k1, k2,
          vertices, normals, uvs, indices, result>>

----------------------------------------------------------------------------
\* Bounds of the model.
MaxAxis == 2
MaxSectors == 4
MaxStacks == 3

AxisValues == (0 - 1)..MaxAxis
SectorValues == 0..MaxSectors
StackValues == 0..MaxStacks

----------------------------------------------------------------------------
\* f32 arithmetic on extended rationals.

Abs(n) == IF n < 0 THEN 0 - n ELSE n

Sgn(n) == IF n < 0 THEN 0 - 1 ELSE IF n = 0 THEN 0 ELSE 1

RECURSIVE GCD(_, _)
GCD(m, n) == IF n = 0 THEN m ELSE GCD(n, m % n)

\* n/d in lowest terms, d >= 0; d = 0 gives an infinity or NaN.
Norm(n, d) ==
    IF d = 0 THEN <<Sgn(n), 0>>
    ELSE LET s == Sgn(d)
             g == GCD(Abs(n), Abs(d))
         IN  <<(s * n) \div g, Abs(d) \div g>>

NaN == <<0, 0>>
One == <<1, 1>>
Two == <<2, 1>>
IsNaN(p) == p = NaN
IsFinite(p) == p[2] > 0

\* usize as f32
F32(n) == <<n, 1>>

RMul(p, q) == Norm(p[1] * q[1], p[2] * q[2])

RDiv(p, q) ==
    IF q[1] = 0 /\ q[2] > 0
    THEN Norm(p[1], 0)                       \* x / 0
    ELSE Norm(p[1] * q[2] * Sgn(q[1]), p[2] * Abs(q[1]))

RSub(p, q) == Norm(p[1] * q[2] - q[1] * p[2], p[2] * q[2])

\* std::f32::consts::PI, in units of PI
PI == One

\* A coordinate: coefficient k times the product of the factors t.
Val(k, t) == [k |-> k, t |-> IF IsNaN(k) THEN <<>> ELSE t]

Cos(angle) == IF IsFinite(angle) THEN Val(One, <<<<"cos", angle>>>>) ELSE Val(NaN, <<>>)

Sin(angle) == IF IsFinite(angle) THEN Val(One, <<<<"sin", angle>>>>) ELSE Val(NaN, <<>>)

\* f32 * (f32 with factors)
Scale(r, v) == Val(RMul(r, v.k), v.t)

VMul(v, w) == Val(RMul(v.k, w.k), v.t \o w.t)

----------------------------------------------------------------------------
\* The locals of uv computed before the loops.

sectors_f32 == F32(sectors)
stacks_f32 == F32(stacks)
a_inv == RDiv(One, F32(a))
b_inv == RDiv(One, F32(b))
c_inv == RDiv(One, F32(c))
sector_step == RDiv(RMul(Two, PI), sectors_f32)
stack_step == RDiv(PI, stacks_f32)

StackAngle(ii) == RSub(RDiv(PI, Two), RMul(F32(ii), stack_step))

SectorAngle(jj) == RMul(F32(jj), sector_step)

\* Bounds of the four loops.
VertexOuterEnd == stacks + 1
\* Mutant: the inner vertex loop misses the seam column.
VertexInnerEnd_NoSeam == sectors
VertexInnerEnd == sectors + 1
\* Mutant: the index loop runs one band too far.
IndexOuterEnd_Over == stacks + 1
IndexOuterEnd == stacks
IndexInnerEnd == sectors

\* The three pushes of the inner vertex loop.
VertexAt(jj) ==
    <<VMul(x, Cos(SectorAngle(jj))), VMul(y, Sin(SectorAngle(jj))), z>>

NormalAt(jj) ==
    LET v == VertexAt(jj)
    IN  <<Scale(a_inv, v[1]), Scale(b_inv, v[2]), Scale(c_inv, v[3])>>

\* Mutant: u and v are swapped.
UvAt_Swapped(ii, jj) == <<RDiv(F32(ii), stacks_f32), RDiv(F32(jj), sectors_f32)>>

UvAt(ii, jj) == <<RDiv(F32(jj), sectors_f32), RDiv(F32(ii), stacks_f32)>>

\* usize as u32.  The cast keeps every value below 2^32, and the indices of
\* the model stay far below it (the model's integers are 32 bits wide).
AsU32(n) == n

RowStart(ii) == ii * (sectors + 1)

RowBelow(k) == k + sectors + 1

UpperTriangle(kk1, kk2) == <<AsU32(kk1), AsU32(kk2), AsU32(kk1 + 1)>>

\* Mutant: the lower triangle is wound the other way.
LowerTriangle_Flipped(kk1, kk2) == <<AsU32(kk1 + 1), AsU32(kk2 + 1), AsU32(kk2)>>

LowerTriangle(kk1, kk2) == <<AsU32(kk1 + 1), AsU32(kk2), AsU32(kk2 + 1)>>

\* Mutant: both triangles are pushed in every band.
CellIndices_NoPoleSkip(ii, kk1, kk2) ==
    UpperTriangle(kk1, kk2) \o LowerTriangle(kk1, kk2)

\* Mutant: the bottom band is taken to be band stacks, not stacks - 1.
CellIndices_OffByOne(ii, kk1, kk2) ==
    (IF ii # 0 THEN UpperTriangle(kk1, kk2) ELSE <<>>)
    \o (IF ii # stacks THEN LowerTriangle(kk1, kk2) ELSE <<>>)

\* Mutant: the lower triangle is pushed before the upper one.
CellIndices_LowerFirst(ii, kk1, kk2) ==
    (IF ii # stacks - 1 THEN LowerTriangle(kk1, kk2) ELSE <<>>)
    \o (IF ii # 0 THEN UpperTriangle(kk1, kk2) ELSE <<>>)

\* The pushes of one pass of the inner index loop.
CellIndices(ii, kk1, kk2) ==
    (IF ii # 0 THEN UpperTriangle(kk1, kk2) ELSE <<>>)
    \o (IF ii # stacks - 1 THEN LowerTriangle(kk1, kk2) ELSE <<>>)

----------------------------------------------------------------------------
NoVal == Val(NaN, <<>>)

\* EllipsoidMeshBuilder::new(a, b, c): any three f32, nothing is checked.
Init ==
    /\ a \in AxisValues /\ b \in AxisValues /\ c \in AxisValues
    /\ sectors = 0 /\ stacks = 0
    /\ pc = "idle"
    /\ i = 0 /\ j = 0
    /\ x = NoVal /\ y = NoVal /\ z = NoVal
    /\ k1 = 0 /\ k2 = 0
    /\ vertices = <<>> /\ normals = <<>> /\ uvs = <<>> /\ indices = <<>>
    /\ result = [kind |-> "none"]

\* uv(sectors, stacks): the prelude up to the four Vec::with_capacity.
UvEntry(s, t) ==
    /\ pc = "idle"
    /\ sectors' = s /\ stacks' = t
    /\ vertices' = <<>> /\ normals' = <<>> /\ uvs' = <<>> /\ indices' = <<>>
    /\ i' = 0
    /\ pc' = "vertex_outer"
    /\ UNCHANGED <<a, b, c, j, x, y, z, k1, k2, result>>

\* for i in 0..stacks + 1 { stack_angle, x, y, z
VertexOuter ==
    /\ pc = "vertex_outer"
    /\ i < VertexOuterEnd
    /\ x' = Scale(F32(a), Cos(StackAngle(i)))
    /\ y' = Scale(F32(b), Cos(StackAngle(i)))
    /\ z' = Scale(F32(c), Sin(StackAngle(i)))
    /\ j' = 0
    /\ pc' = "vertex_inner"
    /\ UNCHANGED <<a, b, c, sectors, stacks, i, k1, k2,
                   vertices, normals, uvs, indices, result>>

\* for j in 0..sectors + 1 { three pushes }
VertexInner ==
    /\ pc = "vertex_inner"
    /\ j < VertexInnerEnd
    /\ vertices' = Append(vertices, VertexAt(j))
    /\ normals' = Append(normals, NormalAt(j))
    /\ uvs' = Append(uvs, UvAt(i, j))
    /\ j' = j + 1
    /\ UNCHANGED <<a, b, c, sectors, stacks, pc, i, x, y, z, k1, k2,
                   indices, result>>

\* the inner vertex loop ends
VertexInnerDone ==
    /\ pc = "vertex_inner"
    /\ ~(j < VertexInnerEnd)
    /\ i' = i + 1
    /\ pc' = "vertex_outer"
    /\ UNCHANGED <<a, b, c, sectors, stacks, j, x, y, z, k1, k2,
                   vertices, normals, uvs, indices, result>>

\* the outer vertex loop ends
VertexOuterDone ==
    /\ pc = "vertex_outer"
    /\ ~(i < VertexOuterEnd)
    /\ i' = 0
    /\ pc' = "index_outer"
    /\ UNCHANGED <<a, b, c, sectors, stacks, j, x, y, z, k1, k2,
                   vertices, normals, uvs, indices, result>>

\* for i in 0..stacks { k1, k2
IndexOuter ==
    /\ pc = "index_outer"
    /\ i < IndexOuterEnd
    /\ k1' = RowStart(i)
    /\ k2' = RowBelow(RowStart(i))
    /\ j' = 0
    /\ pc' = "index_inner"
    /\ UNCHANGED <<a, b, c, sectors, stacks, i, x, y, z,
                   vertices, normals, uvs, indices, result>>

\* for _j in 0..sectors { pushes; k1 += 1; k2 += 1 }
IndexInner ==
    /\ pc = "index_inner"
    /\ j < IndexInnerEnd
    /\ indices' = indices \o CellIndices(i, k1, k2)
    /\ k1' = k1 + 1
    /\ k2' = k2 + 1
    /\ j' = j + 1
    /\ UNCHANGED <<a, b, c, sectors, stacks, pc, i, x, y, z,
                   vertices, normals, uvs, result>>

\* the inner index loop ends
IndexInnerDone ==
    /\ pc = "index_inner"
    /\ ~(j < IndexInnerEnd)
    /\ i' = i + 1
    /\ pc' = "index_outer"
    /\ UNCHANGED <<a, b, c, sectors, stacks, j, x, y, z, k1, k2,
                   vertices, normals, uvs, indices, result>>

\* Mesh::new(..).with_inserted_indices(..).with_inserted_attribute(..)
Return ==
    /\ pc = "index_outer"
    /\ ~(i < IndexOuterEnd)
    /\ result' = [kind |-> "Mesh", indices |-> indices, positions |-> vertices,
                  normals |-> normals, uvs |-> uvs]
    /\ pc' = "done"
    /\ UNCHANGED <<a, b, c, sectors, stacks, i, j, x, y, z, k1, k2,
                   vertices, normals, uvs, indices>>

Next ==
    \/ \E s \in SectorValues, t \in StackValues : UvEntry(s, t)
    \/ VertexOuter
    \/ VertexInner
    \/ VertexInnerDone
    \/ VertexOuterDone
    \/ IndexOuter
    \/ IndexInner
    \/ IndexInnerDone
    \/ Return

Spec == Init /\ [][Next]_vars

----------------------------------------------------------------------------
\* Vocabulary of the properties.

Done == pc = "done"

ValidResolution == sectors >= 1 /\ stacks >= 1

ValidShape == a > 0 /\ b > 0 /\ c > 0

\* 1-based place in the buffers of grid point (row ii, column jj)
GridIndex(ii, jj) == ii * (sectors + 1) + jj + 1

GridCount == (stacks + 1) * (sectors + 1)

\* The point of the unit sphere at (StackAngle(ii), SectorAngle(jj)).
UnitDirection(ii, jj) ==
    <<VMul(Cos(StackAngle(ii)), Cos(SectorAngle(jj))),
      VMul(Cos(StackAngle(ii)), Sin(SectorAngle(jj))),
      Sin(StackAngle(ii))>>

\* The position and the normal uv computes for grid point (ii, jj).
GridPosition(ii, jj) ==
    <<VMul(Scale(F32(a), Cos(StackAngle(ii))), Cos(SectorAngle(jj))),
      VMul(Scale(F32(b), Cos(StackAngle(ii))), Sin(SectorAngle(jj))),
      Scale(F32(c), Sin(StackAngle(ii)))>>

GridNormal(ii, jj) ==
    LET p == GridPosition(ii, jj)
    IN  <<Scale(a_inv, p[1]), Scale(b_inv, p[2]), Scale(c_inv, p[3])>>

\* Row and column of a 0-based vertex index.
RowOf(n) == n \div (sectors + 1)
ColOf(n) == n % (sectors + 1)

NumTriangles(idx) == Len(idx) \div 3

Triangle(idx, n) == <<idx[3 * n - 2], idx[3 * n - 1], idx[3 * n]>>

\* Twice the signed area of a triangle in the grid, column to the right and
\* row upwards.  Seen from outside the ellipsoid the columns run to the
\* right and the rows run downwards, so a triangle is counter-clockwise
\* from outside exactly when this is negative.
SignedArea2(t) ==
    (ColOf(t[2]) - ColOf(t[1])) * (RowOf(t[3]) - RowOf(t[1]))
    - (ColOf(t[3]) - ColOf(t[1])) * (RowOf(t[2]) - RowOf(t[1]))

OnPoleRow(n) == RowOf(n) = 0 \/ RowOf(n) = stacks

\* A trigonometric factor that is zero: cos of an odd multiple of PI/2,
\* sin of a multiple of PI.
FactorIsZero(f) == IF f[1] = "cos" THEN f[2][2] = 2 ELSE f[2][2] = 1

ProductIsZero(t) == \E n \in 1..Len(t) : FactorIsZero(t[n])

\* n and g are multiples of the same three products and all components of
\* their cross product are zero.
Parallel(n, g) ==
    \A p \in 1..3, q \in 1..3 :
        /\ n[p].t = g[p].t
        /\ \/ ProductIsZero(n[p].t)
           \/ ProductIsZero(n[q].t)
           \/ RMul(n[p].k, g[q].k) = RMul(n[q].k, g[p].k)

\* The index buffer as the stitching rule spells it out, from band ii,
\* column jj on.
RECURSIVE StitchFrom(_, _)
StitchFrom(ii, jj) ==
    IF ii >= stacks THEN <<>>
    ELSE IF jj >= sectors THEN StitchFrom(ii + 1, 0)
    ELSE LET kk1 == ii * (sectors + 1) + jj
             kk2 == kk1 + sectors + 1
         IN  (IF ii # 0 THEN <<kk1, kk2, kk1 + 1>> ELSE <<>>)
             \o (IF ii # stacks - 1 THEN <<kk1 + 1, kk2, kk2 + 1>> ELSE <<>>)
             \o StitchFrom(ii, jj + 1)

IsPrefix(s, t) == Len(s) <= Len(t) /\ SubSeq(t, 1, Len(s)) = s

----------------------------------------------------------------------------
\* C1: uv with sectors = 0 or stacks = 0 fails with InvalidResolutionError
\* and hands no mesh buffers back.
C1_ZeroResolutionFails ==
    (Done /\ (sectors = 0 \/ stacks = 0))
        => result.kind = "InvalidResolutionError"

\* C2: uv on an ellipsoid with a semi-axis that is zero or negative fails
\* with InvalidShapeError, whatever the resolution; no mesh is returned.
C2_DegenerateShapeFails ==
    (Done /\ ~ValidShape) => result.kind = "InvalidShapeError"

\* C3: for sectors >= 1 and stacks >= 1 the mesh has (stacks+1)*(sectors+1)
\* positions, as many normals and uvs, and the sample of grid point (i, j)
\* is at index i*(sectors+1)+j of all three buffers.
C3_GridLayout ==
    (Done /\ ValidResolution) =>
        /\ Len(result.positions) = GridCount
        /\ Len(result.normals) = Len(result.positions)
        /\ Len(result.uvs) = Len(result.positions)
        /\ \A ii \in 0..stacks, jj \in 0..sectors :
              /\ result.positions[GridIndex(ii, jj)] = GridPosition(ii, jj)
              /\ result.normals[GridIndex(ii, jj)] = GridNormal(ii, jj)
              /\ result.uvs[GridIndex(ii, jj)]
                    = <<Norm(jj, sectors), Norm(ii, stacks)>>

C3_Witness ==
    /\ Done /\ sectors = 4 /\ stacks = 2
    /\ Len(result.positions) = 15

\* C4: for sectors >= 1 and stacks >= 2 the index buffer has exactly
\* 3*(2*(stacks-2)+2)*sectors entries, a multiple of 3.
C4_IndexCount ==
    (Done /\ sectors >= 1 /\ stacks >= 2) =>
        /\ Len(result.indices) = 3 * (2 * (stacks - 2) + 2) * sectors
        /\ Len(result.indices) % 3 = 0

C4_Witness ==
    /\ Done /\ sectors = 4 /\ stacks = 2
    /\ Len(result.indices) = 24

\* C5: for sectors >= 1 and stacks >= 1 every index is below the number of
\* positions, (stacks+1)*(sectors+1).
C5_IndicesInRange ==
    (Done /\ ValidResolution) =>
        \A n \in 1..Len(result.indices) :
            /\ result.indices[n] >= 0
            /\ result.indices[n] < Len(result.positions)
            /\ result.indices[n] < GridCount

C5_Witness ==
    /\ Done /\ ValidResolution
    /\ \E n \in 1..Len(result.indices) :
           result.indices[n] = Len(result.positions) - 2

\* C6: the texture coordinate of grid point (i, j) is exactly
\* (j/sectors, i/stacks), both in [0,1]; in each row the samples at j = 0
\* and j = sectors have the same v and u = 0 and u = 1.
C6_TextureCoordinates ==
    (Done /\ ValidResolution) =>
        \A ii \in 0..stacks, jj \in 0..sectors :
            LET uv == result.uvs[GridIndex(ii, jj)]
                first == result.uvs[GridIndex(ii, 0)]
                last == result.uvs[GridIndex(ii, sectors)]
            IN  /\ uv[1][2] > 0 /\ uv[2][2] > 0
                /\ uv[1][1] * sectors = jj * uv[1][2]
                /\ uv[2][1] * stacks = ii * uv[2][2]
                /\ 0 <= uv[1][1] /\ uv[1][1] <= uv[1][2]
                /\ 0 <= uv[2][1] /\ uv[2][1] <= uv[2][2]
                /\ first[2] = last[2]
                /\ first[1] = <<0, 1>> /\ last[1] = <<1, 1>>

C6_Witness ==
    /\ Done /\ sectors = 4 /\ stacks = 2
    /\ result.uvs[GridIndex(1, 1)] = <<<<1, 4>>, <<1, 2>>>>
    /\ result.uvs[GridIndex(1, 4)] = <<<<1, 1>>, <<1, 2>>>>

\* C7: for a positive shape the normal of grid point (i, j) is parallel to
\* the unit-sphere direction with each component scaled by the reciprocal
\* of its axis length, (ux/a, uy/b, uz/c).
C7_NormalIsReciprocalScaled ==
    (Done /\ ValidResolution /\ ValidShape) =>
        \A ii \in 0..stacks, jj \in 0..sectors :
            LET u == UnitDirection(ii, jj)
            IN  Parallel(result.normals[GridIndex(ii, jj)],
                         <<Scale(RDiv(One, F32(a)), u[1]),
                           Scale(RDiv(One, F32(b)), u[2]),
                           Scale(RDiv(One, F32(c)), u[3])>>)

\* C8: the index buffer is, band by band and column by column, the
\* triangle (k1, k2, k1+1) iff i # 0 followed by the triangle
\* (k1+1, k2, k2+1) iff i # stacks-1, and nothing else: while uv runs the
\* buffer is a prefix of that sequence, and it is the whole of it on return.
C8_StitchingSequence ==
    /\ pc # "idle" => IsPrefix(indices, StitchFrom(0, 0))
    /\ Done => result.indices = StitchFrom(0, 0)

C8_Witness ==
    /\ Done /\ sectors = 2 /\ stacks = 3
    /\ result.indices = <<1, 3, 4, 2, 4, 5,
                          3, 6, 4, 4, 6, 7, 4, 7, 5, 5, 7, 8,
                          6, 9, 7, 7, 10, 8>>

\* C9: every triangle has the same orientation in the (j, i) grid: its
\* signed area there is negative, which is counter-clockwise as seen from
\* outside the ellipsoid.
C9_ConsistentWinding ==
    (Done /\ ValidResolution) =>
        \A n \in 1..NumTriangles(result.indices) :
            SignedArea2(Triangle(result.indices, n)) < 0

C9_Witness ==
    /\ Done /\ stacks >= 3 /\ sectors >= 2
    /\ \E m \in 1..NumTriangles(result.indices),
          n \in 1..NumTriangles(result.indices) :
           /\ Triangle(result.indices, m)[1] + 1 = Triangle(result.indices, m)[3]
           /\ Triangle(result.indices, n)[2] + 1 = Triangle(result.indices, n)[3]
           /\ SignedArea2(Triangle(result.indices, m)) = 0 - 1
           /\ SignedArea2(Triangle(result.indices, n)) = 0 - 1

\* C10: for sectors >= 1 and stacks >= 1 every triangle has three distinct
\* indices and at most one vertex on a pole row (row 0 or row stacks); with
\* stacks = 1 the index buffer is empty.
C10_NoCollapsedTriangle ==
    (Done /\ ValidResolution) =>
        /\ \A n \in 1..NumTriangles(result.indices) :
              LET t == Triangle(result.indices, n)
              IN  /\ t[1] # t[2] /\ t[2] # t[3] /\ t[1] # t[3]
                  /\ Cardinality({p \in 1..3 : OnPoleRow(t[p])}) <= 1
        /\ stacks = 1 => result.indices = <<>>

C10_Witness ==
    /\ Done /\ sectors >= 2 /\ stacks >= 2
    /\ \E n \in 1..NumTriangles(result.indices) :
           Cardinality({p \in 1..3 :
               OnPoleRow(Triangle(result.indices, n)[p])}) = 1

====
